---- MODULE Spec2Model ----
(***************************************************************************)
(* Reorg detection and recovery of the indexer                             *)
(* (core/src/indexer/reorg.rs): the notification classifier                *)
(* handle_chain_notification, the safe distance policy                     *)
(* reorg_safe_distance_for_chain, the fork point locator find_fork_point,  *)
(* the recovery orchestrator handle_reorg_recovery with its four storage   *)
(* statements, and handle_native_transfer_reorg_recovery.                  *)
(***************************************************************************)
EXTENDS Integers, Sequences, FiniteSets

(***************************************************************************)
(* Bounds of the model.                                                    *)
(***************************************************************************)
\* Block numbers of stored rows, checkpoints and fork blocks are 0..MaxBlock.
MaxBlock == 1
\* Recoveries started in one behaviour.
MaxRuns == 2

\* find_fork_point: cached block numbers are 0..MaxCacheBlock
MaxCacheBlock == 3
\* find_fork_point: a reorged block far above every cached block, beyond the
\* scan window
FarBlock == 70
\* handle_chain_notification: block numbers are 0..MaxEventBlock, the widest
\* value of the integer type in the model
MaxEventBlock == 3
\* notifications handled in one behaviour
MaxNotifications == 2

\* reorg_safe_distance_for_chain: chain identifiers are 0..MaxChainId
MaxChainId == 60

\* reorg_safe_distance_for_chain: the chain with the short distance, the short
\* distance, the distance of every other chain
MainnetChainId == 1
MainnetSafeDistance == 12
DefaultSafeDistance == 64

\* find_fork_point: at most this many candidates are collected
MaxBlocksToCheck == 64
\* find_fork_point: the scan window is the cache length plus this
ScanSlack == 64

\* two networks share each table; the recovered target indexes the first
Networks == {"n1", "n2"}
Target == "n1"
Blocks == 0..MaxBlock
\* a reorg may be notified for a block above every stored row
ForkBlocks == 0..(MaxBlock + 1)
CacheBlocks == 0..MaxCacheBlock
ReorgedBlocks == (0..(MaxCacheBlock + 1)) \cup {FarBlock}
EventBlocks == 0..MaxEventBlock
Hashes == {"hA", "hB"}
ChainIds == 0..MaxChainId

(***************************************************************************)
(* State.                                                                  *)
(***************************************************************************)
VARIABLES
    \* EventProcessingConfig: postgres(), clickhouse(), network_contract().network
    cfgPostgres, cfgClickhouse, cfgNetwork,
    \* the event table schema.event_table of each backend: rows [network, block_number]
    pgEvents, chEvents,
    \* rindexer_internal.<table> of PostgreSQL: rows [network, last_synced_block]
    pgCheckpoint,
    \* rindexer_internal.<table> of ClickHouse: the records in insertion order
    chCheckpoint,
    \* handle_reorg_recovery: the await it is suspended at, its locals
    pc, fork_block, rewind_block,
    \* whether every statement the running recovery has issued returned Ok
    all_ok,
    \* how the running recovery relates to the one before it: "rerun" (same
    \* fork block as a completed, failure-free recovery), "retry" (same fork
    \* block as a cancelled recovery) or "fresh"
    mode,
    \* recoveries started so far
    runs,
    \* the statement log of the running recovery, kept by the behaviours that
    \* start with auditing on: how often each statement was issued, which
    \* statements returned Err, and the storage as it was at entry
    auditing, issued, failed, before,
    \* find_fork_point: its arguments block_cache (block number -> hash of the
    \* cached BlockMeta) and reorged_block
    block_cache, reorged_block,
    \* find_fork_point: the await it is at, its local blocks_to_check, the
    \* batches asked of the provider, the provider's answer, the value returned
    lpc, blocks_to_check, queries, answer, located,
    \* find_fork_point: the block numbers its scan loop has peeked at
    inspected,
    \* handle_chain_notification: the last notification and network, the
    \* Option<ReorgInfo> returned for it, the record_reorg calls made so far,
    \* the notifications handled and the descriptors returned so far
    notification, notified_network, descriptor, recorded, handled, described,
    \* the native_transfer table of the EvmTraces schema and its checkpoint
    \* table, both in PostgreSQL: rows as in pgEvents and pgCheckpoint
    ntEvents, ntCheckpoint,
    \* handle_native_transfer_reorg_recovery: whether its postgres argument is
    \* Some, its network and fork_block arguments, its local rewind_block, the
    \* await it is at, whether its statements so far returned Ok, the calls
    \* started so far
    nt_postgres, nt_network, nt_fork_block, nt_rewind_block, npc, nt_ok, nt_runs,
    \* reorg_safe_distance_for_chain: its argument, whether it has returned,
    \* the value returned
    chain_id, dpc, safe_distance

vars == <<cfgPostgres, cfgClickhouse, cfgNetwork, pgEvents, chEvents,
          pgCheckpoint, chCheckpoint, pc, fork_block, rewind_block, all_ok,
          mode, runs, auditing, issued, failed, before, block_cache, reorged_block, lpc, blocks_to_check,
          queries, answer, located, inspected, notification, notified_network,
          descriptor, recorded, handled, described, ntEvents, ntCheckpoint,
          nt_postgres, nt_network, nt_fork_block, nt_rewind_block, npc, nt_ok,
          nt_runs, chain_id, dpc, safe_distance>>

storage == <<pgEvents, chEvents, pgCheckpoint, chCheckpoint>>
config == <<cfgPostgres, cfgClickhouse, cfgNetwork>>
audit == <<auditing, issued, failed, before>>
recoveryVars == <<config, storage, pc, fork_block, rewind_block, all_ok, mode, runs,
                  audit>>
locateVars == <<block_cache, reorged_block, lpc, blocks_to_check, queries, answer, located,
                inspected>>
classifyVars == <<notification, notified_network, descriptor, recorded, handled,
                  described>>
nativeVars == <<ntEvents, ntCheckpoint, nt_postgres, nt_network, nt_fork_block,
                nt_rewind_block, npc, nt_ok, nt_runs>>
distanceVars == <<chain_id, dpc, safe_distance>>

(***************************************************************************)
(* Arithmetic.                                                             *)
(***************************************************************************)
\* u64::saturating_sub
SaturatingSub(a, b) == IF a >= b THEN a - b ELSE 0

(***************************************************************************)
(* The four storage statements, as functions of the table they act on.     *)
(***************************************************************************)
\* (mutant) the row of the fork block itself is kept
DeleteEventsPostgres_AboveFork(table, fork, network) ==
    {r \in table : ~(r.block_number > fork /\ r.network = network)}

\* DELETE FROM t WHERE block_number >= fork AND network = 'n'
DeleteEventsPostgres(table, fork, network) ==
    {r \in table : ~(r.block_number >= fork /\ r.network = network)}

\* (mutant) the row of the fork block itself is kept
DeleteEventsClickhouse_AboveFork(table, fork) ==
    {r \in table : ~(r.block_number > fork)}

\* ALTER TABLE t DELETE WHERE block_number >= fork   (no network in the statement)
DeleteEventsClickhouse(table, fork) ==
    {r \in table : ~(r.block_number >= fork)}

\* (mutant) SET last_synced_block = last_synced_block - 1: a relative rewind
RewindCheckpointPostgres_Relative(table, rewind, network) ==
    {IF r.network = network THEN [r EXCEPT !.last_synced_block = @ - 1] ELSE r
        : r \in table}

\* UPDATE t SET last_synced_block = rewind WHERE network = 'n'
RewindCheckpointPostgres(table, rewind, network) ==
    {IF r.network = network THEN [r EXCEPT !.last_synced_block = rewind] ELSE r
        : r \in table}

\* INSERT INTO t (network, last_synced_block) VALUES ('n', rewind)
RewindCheckpointClickhouse(log, rewind, network) ==
    Append(log, [network |-> network, last_synced_block |-> rewind])

(***************************************************************************)
(* What a reader of the checkpoint observes.                               *)
(***************************************************************************)
\* the values of the rows of a network (the table has one row per network)
ReadCheckpointPostgres(table, network) ==
    {r.last_synced_block : r \in {x \in table : x.network = network}}

\* the latest inserted record of a network wins
ReadCheckpointClickhouse(log, network) ==
    LET idx == {i \in 1..Len(log) : log[i].network = network}
    IN  IF idx = {} THEN {}
        ELSE {log[CHOOSE i \in idx : \A j \in idx : j <= i].last_synced_block}

(***************************************************************************)
(* Initial state: any stored rows, the same in both backends, and one      *)
(* checkpoint row per network, both networks synced to the same block.     *)
(***************************************************************************)
EventRows == [network : Networks, block_number : Blocks]

InitStorage ==
    /\ pgEvents \in SUBSET EventRows
    /\ chEvents = pgEvents
    /\ \E b \in Blocks :
          /\ pgCheckpoint = {[network |-> n, last_synced_block |-> b] : n \in Networks}
          /\ chCheckpoint = <<[network |-> "n1", last_synced_block |-> b],
                              [network |-> "n2", last_synced_block |-> b]>>

\* the four statements of handle_reorg_recovery, named by the await they run at
Statements == {"pg_delete", "pg_rewind", "ch_delete", "ch_rewind"}
NoneIssued == [s \in Statements |-> 0]

\* no recovery, no fork point search, no notification yet
RecoveryIdle ==
    /\ issued = NoneIssued
    /\ failed = {}
    /\ before = <<>>
    /\ pc = "idle"
    /\ fork_block = 0
    /\ rewind_block = 0
    /\ all_ok = TRUE
    /\ mode = "fresh"
    /\ runs = 0

LocateIdle ==
    /\ lpc = "call"
    /\ blocks_to_check = <<>>
    /\ queries = <<>>
    /\ answer = [status |-> "none", blocks |-> <<>>]
    /\ located = 0
    /\ inspected = 0

NativeIdle ==
    /\ nt_network = Target
    /\ nt_fork_block = 0
    /\ nt_rewind_block = 0
    /\ npc = "idle"
    /\ nt_ok = TRUE
    /\ nt_runs = 0

\* no native transfer indexing: no table, no call
NativeAbsent ==
    /\ ntEvents = {}
    /\ ntCheckpoint = {}
    /\ nt_postgres = FALSE
    /\ NativeIdle

DistanceIdle ==
    /\ chain_id = MainnetChainId
    /\ dpc = "call"
    /\ safe_distance = 0

ClassifyIdle ==
    /\ notification = [kind |-> "none"]
    /\ notified_network = Target
    /\ descriptor = {}
    /\ recorded = <<>>
    /\ handled = 0
    /\ described = 0

Init ==
    /\ cfgPostgres \in BOOLEAN
    /\ cfgClickhouse \in BOOLEAN
    /\ cfgNetwork = Target
    /\ InitStorage
    /\ RecoveryIdle
    /\ auditing = FALSE
    /\ block_cache = <<>>
    /\ reorged_block = 0
    /\ LocateIdle
    /\ ClassifyIdle
    /\ NativeAbsent
    /\ DistanceIdle

(***************************************************************************)
(* handle_reorg_recovery                                                   *)
(***************************************************************************)
\* (mutant) an Err of a PostgreSQL statement ends the recovery
AfterPostgres_StopOnError == IF cfgClickhouse /\ all_ok THEN "ch_delete" ELSE "done"

AfterPostgres == IF cfgClickhouse THEN "ch_delete" ELSE "done"

\* (mutant) the PostgreSQL statements are issued whatever the configuration
AfterEntry_AlwaysPostgres == "pg_delete"

AfterEntry == IF cfgPostgres THEN "pg_delete" ELSE AfterPostgres

\* the statement log: a statement is issued and returns Ok or Err
Issue(statement, ok) ==
    /\ issued' = IF auditing THEN [issued EXCEPT ![statement] = @ + 1] ELSE issued
    /\ failed' = IF auditing /\ ~ok THEN failed \cup {statement} ELSE failed
    /\ UNCHANGED <<auditing, before>>

Running == pc \in {"pg_delete", "pg_rewind", "ch_delete", "ch_rewind"}

\* entry up to the first await (or to the end, with no backend configured)
HandleReorgRecovery(reorg_fork_block) ==
    /\ pc \in {"idle", "done", "cancelled"}
    /\ runs < MaxRuns
    /\ runs' = runs + 1
    /\ fork_block' = reorg_fork_block
    /\ rewind_block' = SaturatingSub(reorg_fork_block, 1)
    /\ all_ok' = TRUE
    /\ mode' = IF pc = "done" /\ all_ok /\ fork_block = reorg_fork_block THEN "rerun"
               ELSE IF pc = "cancelled" /\ fork_block = reorg_fork_block THEN "retry"
               ELSE "fresh"
    /\ pc' = AfterEntry
    /\ issued' = NoneIssued
    /\ failed' = {}
    /\ before' = IF auditing THEN storage ELSE before
    /\ UNCHANGED <<config, storage, auditing, locateVars, classifyVars, nativeVars, distanceVars>>

\* delete_events_postgres(...).await
DeletePostgresStep ==
    /\ pc = "pg_delete"
    /\ \E ok \in BOOLEAN :
          /\ pgEvents' = IF ok THEN DeleteEventsPostgres(pgEvents, fork_block, cfgNetwork)
                         ELSE pgEvents
          /\ all_ok' = (all_ok /\ ok)
          /\ Issue("pg_delete", ok)
    /\ pc' = "pg_rewind"
    /\ UNCHANGED <<config, chEvents, pgCheckpoint, chCheckpoint, fork_block,
                   rewind_block, mode, runs, locateVars, classifyVars, nativeVars, distanceVars>>

\* rewind_checkpoint_postgres(...).await
RewindPostgresStep ==
    /\ pc = "pg_rewind"
    /\ \E ok \in BOOLEAN :
          /\ pgCheckpoint' = IF ok
                             THEN RewindCheckpointPostgres(pgCheckpoint, rewind_block, cfgNetwork)
                             ELSE pgCheckpoint
          /\ all_ok' = (all_ok /\ ok)
          /\ Issue("pg_rewind", ok)
    /\ pc' = AfterPostgres
    /\ UNCHANGED <<config, pgEvents, chEvents, chCheckpoint, fork_block,
                   rewind_block, mode, runs, locateVars, classifyVars, nativeVars, distanceVars>>

\* delete_events_clickhouse(...).await
DeleteClickhouseStep ==
    /\ pc = "ch_delete"
    /\ \E ok \in BOOLEAN :
          /\ chEvents' = IF ok THEN DeleteEventsClickhouse(chEvents, fork_block)
                         ELSE chEvents
          /\ all_ok' = (all_ok /\ ok)
          /\ Issue("ch_delete", ok)
    /\ pc' = "ch_rewind"
    /\ UNCHANGED <<config, pgEvents, pgCheckpoint, chCheckpoint, fork_block,
                   rewind_block, mode, runs, locateVars, classifyVars, nativeVars, distanceVars>>

\* rewind_checkpoint_clickhouse(...).await
RewindClickhouseStep ==
    /\ pc = "ch_rewind"
    /\ \E ok \in BOOLEAN :
          /\ chCheckpoint' = IF ok
                             THEN RewindCheckpointClickhouse(chCheckpoint, rewind_block, cfgNetwork)
                             ELSE chCheckpoint
          /\ all_ok' = (all_ok /\ ok)
          /\ Issue("ch_rewind", ok)
    /\ pc' = "done"
    /\ UNCHANGED <<config, pgEvents, chEvents, pgCheckpoint, fork_block,
                   rewind_block, mode, runs, locateVars, classifyVars, nativeVars, distanceVars>>

\* the future is dropped while suspended at an await
Cancel ==
    /\ Running
    /\ pc' = "cancelled"
    /\ UNCHANGED <<config, storage, fork_block, rewind_block, all_ok, mode, runs,
                   audit, locateVars, classifyVars, nativeVars, distanceVars>>

Next ==
    \/ \E f \in ForkBlocks : HandleReorgRecovery(f)
    \/ DeletePostgresStep
    \/ RewindPostgresStep
    \/ DeleteClickhouseStep
    \/ RewindClickhouseStep
    \/ Cancel

Spec == Init /\ [][Next]_vars

\* one recovery from any storage, with the statement log kept: the behaviour
\* starts at the last of the MaxRuns recoveries
InitAudited ==
    /\ cfgPostgres \in BOOLEAN
    /\ cfgClickhouse \in BOOLEAN
    /\ cfgNetwork = Target
    /\ InitStorage
    /\ issued = NoneIssued
    /\ failed = {}
    /\ before = <<>>
    /\ pc = "idle"
    /\ fork_block = 0
    /\ rewind_block = 0
    /\ all_ok = TRUE
    /\ mode = "fresh"
    /\ runs = MaxRuns - 1
    /\ auditing = TRUE
    /\ block_cache = <<>>
    /\ reorged_block = 0
    /\ LocateIdle
    /\ ClassifyIdle
    /\ NativeAbsent
    /\ DistanceIdle

SpecAudited == InitAudited /\ [][Next]_vars

\* both backends configured, and no checkpoint row of the target's network in
\* PostgreSQL yet: the checkpoint tables hold the other network's record, and
\* the ClickHouse one may hold the target's
InitNoCheckpoint ==
    /\ cfgPostgres = TRUE
    /\ cfgClickhouse = TRUE
    /\ cfgNetwork = Target
    /\ pgEvents \in SUBSET EventRows
    /\ chEvents = pgEvents
    /\ \E b \in Blocks :
          /\ pgCheckpoint = {[network |-> "n2", last_synced_block |-> b]}
          /\ chCheckpoint \in {<<[network |-> "n2", last_synced_block |-> b]>>,
                                <<[network |-> "n1", last_synced_block |-> b],
                                  [network |-> "n2", last_synced_block |-> b]>>}
    /\ RecoveryIdle
    /\ auditing = FALSE
    /\ block_cache = <<>>
    /\ reorged_block = 0
    /\ LocateIdle
    /\ ClassifyIdle
    /\ NativeAbsent
    /\ DistanceIdle

SpecNoCheckpoint == InitNoCheckpoint /\ [][Next]_vars

(***************************************************************************)
(* handle_native_transfer_reorg_recovery                                   *)
(***************************************************************************)
\* (mutant) the checkpoint is rewound to the fork block itself
NativeRewindBlock_ForkItself(fork) == fork

\* let rewind_block = fork_block.saturating_sub(1)
NativeRewindBlock(fork) == SaturatingSub(fork, 1)

\* entry up to the first await (or to the end, with postgres None)
HandleNativeTransferReorgRecovery(network, fork) ==
    /\ npc \in {"idle", "done"}
    /\ nt_runs < MaxRuns
    /\ nt_runs' = nt_runs + 1
    /\ nt_network' = network
    /\ nt_fork_block' = fork
    /\ nt_rewind_block' = NativeRewindBlock(fork)
    /\ nt_ok' = TRUE
    /\ npc' = IF nt_postgres THEN "nt_delete" ELSE "done"
    /\ UNCHANGED <<ntEvents, ntCheckpoint, nt_postgres, recoveryVars, locateVars,
                   classifyVars, distanceVars>>

\* delete_events_postgres(pg, &schema, "native_transfer", fork_block, network).await
NativeDeleteStep ==
    /\ npc = "nt_delete"
    /\ \E ok \in BOOLEAN :
          /\ ntEvents' = IF ok THEN DeleteEventsPostgres(ntEvents, nt_fork_block, nt_network)
                         ELSE ntEvents
          /\ nt_ok' = (nt_ok /\ ok)
    /\ npc' = "nt_rewind"
    /\ UNCHANGED <<ntCheckpoint, nt_postgres, nt_network, nt_fork_block,
                   nt_rewind_block, nt_runs, recoveryVars, locateVars, classifyVars, distanceVars>>

\* rewind_checkpoint_postgres(pg, &schema, "native_transfer", rewind_block, network).await
NativeRewindStep ==
    /\ npc = "nt_rewind"
    /\ \E ok \in BOOLEAN :
          /\ ntCheckpoint' = IF ok
                             THEN RewindCheckpointPostgres(ntCheckpoint, nt_rewind_block,
                                                           nt_network)
                             ELSE ntCheckpoint
          /\ nt_ok' = (nt_ok /\ ok)
    /\ npc' = "done"
    /\ UNCHANGED <<ntEvents, nt_postgres, nt_network, nt_fork_block,
                   nt_rewind_block, nt_runs, recoveryVars, locateVars, classifyVars, distanceVars>>

\* the EvmTraces schema next to a contract's event table: the same rows and
\* checkpoints in both at the start
InitNative ==
    /\ cfgPostgres = TRUE
    /\ cfgClickhouse = FALSE
    /\ cfgNetwork = Target
    /\ InitStorage
    /\ RecoveryIdle
    /\ auditing = FALSE
    /\ block_cache = <<>>
    /\ reorged_block = 0
    /\ LocateIdle
    /\ ClassifyIdle
    /\ ntEvents = pgEvents
    /\ ntCheckpoint = pgCheckpoint
    /\ nt_postgres \in BOOLEAN
    /\ NativeIdle
    /\ DistanceIdle

NextNative ==
    \/ \E n \in Networks, f \in ForkBlocks : HandleNativeTransferReorgRecovery(n, f)
    \/ NativeDeleteStep
    \/ NativeRewindStep

SpecNative == InitNative /\ [][NextNative]_vars

(***************************************************************************)
(* reorg_safe_distance_for_chain                                           *)
(***************************************************************************)
\* (mutant) every chain gets the default distance
SafeDistanceForChain_AlwaysDefault(id) == DefaultSafeDistance

SafeDistanceForChain(id) ==
    IF id = MainnetChainId THEN MainnetSafeDistance ELSE DefaultSafeDistance

\* the call returns
ReorgSafeDistanceForChain ==
    /\ dpc = "call"
    /\ safe_distance' = SafeDistanceForChain(chain_id)
    /\ dpc' = "returned"
    /\ UNCHANGED <<chain_id, recoveryVars, locateVars, classifyVars, nativeVars>>

InitDistance ==
    /\ cfgPostgres = FALSE
    /\ cfgClickhouse = FALSE
    /\ cfgNetwork = Target
    /\ pgEvents = {}
    /\ chEvents = {}
    /\ pgCheckpoint = {}
    /\ chCheckpoint = <<>>
    /\ RecoveryIdle
    /\ auditing = FALSE
    /\ block_cache = <<>>
    /\ reorged_block = 0
    /\ LocateIdle
    /\ ClassifyIdle
    /\ NativeAbsent
    /\ chain_id \in ChainIds
    /\ dpc = "call"
    /\ safe_distance = 0

NextDistance == ReorgSafeDistanceForChain

SpecDistance == InitDistance /\ [][NextDistance]_vars

(***************************************************************************)
(* find_fork_point                                                         *)
(***************************************************************************)
\* LruCache::peek(&n).is_some()
Cached(cache, n) == n \in DOMAIN cache

\* the loop over (scan_end..=scan_start).rev(): push a cached number, stop at
\* MaxBlocksToCheck candidates
RECURSIVE ScanBackward(_, _, _, _)
ScanBackward(cache, block_num, scan_end, acc) ==
    IF block_num < scan_end THEN acc
    ELSE LET pushed == IF Cached(cache, block_num) THEN Append(acc, block_num) ELSE acc
         IN  IF Len(pushed) >= MaxBlocksToCheck THEN pushed
             ELSE ScanBackward(cache, block_num - 1, scan_end, pushed)

\* the iterations of the same loop: one per block number peeked at
RECURSIVE ScanInspected(_, _, _, _)
ScanInspected(cache, block_num, scan_end, found) ==
    IF block_num < scan_end THEN 0
    ELSE LET pushed == IF Cached(cache, block_num) THEN found + 1 ELSE found
         IN  IF pushed >= MaxBlocksToCheck THEN 1
             ELSE 1 + ScanInspected(cache, block_num - 1, scan_end, pushed)

\* the number of block numbers the scan peeks at
CountInspected(cache, reorged) ==
    LET max_scan   == Cardinality(DOMAIN cache) + ScanSlack
        scan_start == SaturatingSub(reorged, 1)
        scan_end   == SaturatingSub(scan_start, max_scan)
    IN  ScanInspected(cache, scan_start, scan_end, 0)

\* blocks_to_check as collected before the query
CollectBlocksToCheck(cache, reorged) ==
    LET max_scan   == Cardinality(DOMAIN cache) + ScanSlack
        scan_start == SaturatingSub(reorged, 1)
        scan_end   == SaturatingSub(scan_start, max_scan)
    IN  ScanBackward(cache, scan_start, scan_end, <<>>)

\* (mutant) the returned blocks are scanned oldest first
RECURSIVE FirstCanonicalMatch_OldestFirst(_, _, _)
FirstCanonicalMatch_OldestFirst(cache, canonical_blocks, i) ==
    IF i > Len(canonical_blocks) THEN {}
    ELSE LET block == canonical_blocks[i]
             older == FirstCanonicalMatch_OldestFirst(cache, canonical_blocks, i + 1)
         IN  IF older # {} THEN older
             ELSE IF Cached(cache, block.number) /\ cache[block.number] = block.hash
             THEN {block.number + 1}
             ELSE {}

\* the loop over canonical_blocks: the first returned block whose hash equals
\* the cached hash of its number decides; {} when the loop falls through
RECURSIVE FirstCanonicalMatch(_, _, _)
FirstCanonicalMatch(cache, canonical_blocks, i) ==
    IF i > Len(canonical_blocks) THEN {}
    ELSE LET block == canonical_blocks[i]
         IN  IF Cached(cache, block.number) /\ cache[block.number] = block.hash
             THEN {block.number + 1}
             ELSE FirstCanonicalMatch(cache, canonical_blocks, i + 1)

\* (mutant) first() in place of last(): the newest candidate
OldestToCheck_First(to_check, reorged) ==
    IF to_check = <<>> THEN reorged ELSE to_check[1]

\* blocks_to_check.last().unwrap_or(reorged_block)
OldestToCheck(to_check, reorged) ==
    IF to_check = <<>> THEN reorged ELSE to_check[Len(to_check)]

\* the Ok arm of the match on the provider's result
ForkPointFromCanonical(cache, canonical_blocks, to_check, reorged) ==
    LET hit == FirstCanonicalMatch(cache, canonical_blocks, 1)
    IN  IF hit # {} THEN CHOOSE b \in hit : TRUE
        ELSE OldestToCheck(to_check, reorged)

\* (mutant) the Err arm returns reorged_block itself
ForkPointOnError_Unchanged(reorged) == reorged

\* the Err arm
ForkPointOnError(reorged) == SaturatingSub(reorged, 1)

\* get_block_by_number_batch: on success, headers for the requested numbers
\* in the order requested, some possibly missing, each with the hash the
\* chain now has for that number
RECURSIVE PickBlocks(_, _, _, _)
PickBlocks(numbers, returned, hash, i) ==
    IF i > Len(numbers) THEN <<>>
    ELSE (IF i \in returned THEN <<[number |-> numbers[i], hash |-> hash[i]]>> ELSE <<>>)
         \o PickBlocks(numbers, returned, hash, i + 1)

ProviderAnswers(numbers) ==
    {PickBlocks(numbers, returned, hash, 1) :
        returned \in SUBSET (1..Len(numbers)), hash \in [1..Len(numbers) -> Hashes]}

\* every cache over the block numbers of the model
Caches == UNION {[D -> Hashes] : D \in SUBSET CacheBlocks}

InitLocate ==
    /\ block_cache \in Caches
    /\ reorged_block \in ReorgedBlocks
    /\ LocateIdle
    /\ cfgPostgres = FALSE
    /\ cfgClickhouse = FALSE
    /\ cfgNetwork = Target
    /\ pgEvents = {}
    /\ chEvents = {}
    /\ pgCheckpoint = {}
    /\ chCheckpoint = <<>>
    /\ RecoveryIdle
    /\ auditing = FALSE
    /\ ClassifyIdle
    /\ NativeAbsent
    /\ DistanceIdle

\* entry: collect the candidates, return at once when there are none, else
\* send the batch and suspend
FindForkPoint ==
    /\ lpc = "call"
    /\ LET to_check == CollectBlocksToCheck(block_cache, reorged_block)
       IN  /\ blocks_to_check' = to_check
           /\ inspected' = CountInspected(block_cache, reorged_block)
           /\ IF to_check = <<>>
              THEN /\ located' = reorged_block
                   /\ lpc' = "returned"
                   /\ queries' = queries
              ELSE /\ located' = located
                   /\ lpc' = "await"
                   /\ queries' = Append(queries, to_check)
    /\ UNCHANGED <<block_cache, reorged_block, answer, recoveryVars, classifyVars, nativeVars, distanceVars>>

\* the batch comes back Ok(canonical_blocks)
ProviderOk ==
    /\ lpc = "await"
    /\ \E canonical_blocks \in ProviderAnswers(blocks_to_check) :
          /\ answer' = [status |-> "ok", blocks |-> canonical_blocks]
          /\ located' = ForkPointFromCanonical(block_cache, canonical_blocks,
                                               blocks_to_check, reorged_block)
    /\ lpc' = "returned"
    /\ UNCHANGED <<block_cache, reorged_block, blocks_to_check, queries, inspected,
                   recoveryVars, classifyVars, nativeVars, distanceVars>>

\* the batch comes back Err(e)
ProviderErr ==
    /\ lpc = "await"
    /\ answer' = [status |-> "error", blocks |-> <<>>]
    /\ located' = ForkPointOnError(reorged_block)
    /\ lpc' = "returned"
    /\ UNCHANGED <<block_cache, reorged_block, blocks_to_check, queries, inspected,
                   recoveryVars, classifyVars, nativeVars, distanceVars>>

NextLocate ==
    \/ FindForkPoint
    \/ ProviderOk
    \/ ProviderErr

SpecLocate == InitLocate /\ [][NextLocate]_vars

(***************************************************************************)
(* handle_chain_notification                                               *)
(***************************************************************************)
\* ChainStateNotification, with the fields the result depends on (the new
\* range and the tip hash are only logged)
Notifications ==
    [kind : {"Reorged"}, revert_from_block : EventBlocks, revert_to_block : EventBlocks]
    \cup [kind : {"Reverted"}, from_block : EventBlocks, to_block : EventBlocks]
    \cup [kind : {"Committed"}, from_block : EventBlocks, to_block : EventBlocks]

\* (mutant) wrapping_sub in place of saturating_sub
ReorgDepth_Wrapping(from, to) == (from - to) % (MaxEventBlock + 1)

\* depth of a Reorged or Reverted notification
ReorgDepth(from, to) == SaturatingSub(from, to)

\* the ReorgInfo of a notification, as Option: {} is None
ReorgInfoOf(n) ==
    IF n.kind = "Reorged"
    THEN {[fork_block |-> n.revert_to_block,
           depth |-> ReorgDepth(n.revert_from_block, n.revert_to_block)]}
    ELSE IF n.kind = "Reverted"
    THEN {[fork_block |-> n.to_block, depth |-> ReorgDepth(n.from_block, n.to_block)]}
    ELSE {}

\* (mutant) the Committed arm records a reorg of depth 0 as well
RecordReorgCalls_AlsoCommitted(n, network) ==
    IF n.kind = "Reorged"
    THEN <<[network |-> network,
            depth |-> ReorgDepth(n.revert_from_block, n.revert_to_block)]>>
    ELSE IF n.kind = "Reverted"
    THEN <<[network |-> network, depth |-> ReorgDepth(n.from_block, n.to_block)]>>
    ELSE <<[network |-> network, depth |-> 0]>>

\* the metrics::record_reorg calls of a notification
RecordReorgCalls(n, network) ==
    IF n.kind = "Reorged"
    THEN <<[network |-> network,
            depth |-> ReorgDepth(n.revert_from_block, n.revert_to_block)]>>
    ELSE IF n.kind = "Reverted"
    THEN <<[network |-> network, depth |-> ReorgDepth(n.from_block, n.to_block)]>>
    ELSE <<>>

HandleChainNotification(n, network) ==
    /\ handled < MaxNotifications
    /\ handled' = handled + 1
    /\ notification' = n
    /\ notified_network' = network
    /\ descriptor' = ReorgInfoOf(n)
    /\ recorded' = recorded \o RecordReorgCalls(n, network)
    /\ described' = described + Cardinality(ReorgInfoOf(n))
    /\ UNCHANGED <<recoveryVars, locateVars, nativeVars, distanceVars>>

InitClassify ==
    /\ ClassifyIdle
    /\ NativeAbsent
    /\ DistanceIdle
    /\ block_cache = <<>>
    /\ reorged_block = 0
    /\ LocateIdle
    /\ cfgPostgres = FALSE
    /\ cfgClickhouse = FALSE
    /\ cfgNetwork = Target
    /\ pgEvents = {}
    /\ chEvents = {}
    /\ pgCheckpoint = {}
    /\ chCheckpoint = <<>>
    /\ RecoveryIdle
    /\ auditing = FALSE

NextClassify ==
    \E n \in Notifications, network \in Networks : HandleChainNotification(n, network)

SpecClassify == InitClassify /\ [][NextClassify]_vars

(***************************************************************************)
(* Recovery: what the claims speak of.                                     *)
(***************************************************************************)
\* the rows of the target's network at or above the fork block
Orphaned(table) ==
    {r \in table : r.network = cfgNetwork /\ r.block_number >= fork_block}

PgRead(n) == ReadCheckpointPostgres(pgCheckpoint, n)
ChRead(n) == ReadCheckpointClickhouse(chCheckpoint, n)

\* a recovery has run to its end and every statement it issued returned Ok
Recovered == pc = "done" /\ all_ok

\* fork_block - 1 where that is a block number, else 0
FloorPrev(f) == IF f = 0 THEN 0 ELSE f - 1

\* the recovery invariant with the checkpoint at cp, in every configured backend
RecoveryInvariant(cp) ==
    /\ cfgPostgres => (Orphaned(pgEvents) = {} /\ PgRead(cfgNetwork) = {cp})
    /\ cfgClickhouse => (Orphaned(chEvents) = {} /\ ChRead(cfgNetwork) = {cp})

\* C1 as stated: after a recovery that completed with every statement
\* succeeding, each configured backend holds no row of the target's network
\* at or above fork_block and its checkpoint reads fork_block - 1.
C1_RecoveryInvariantMinusOne ==
    Recovered => RecoveryInvariant(fork_block - 1)

\* C1 as amended: the same, with the checkpoint reading fork_block - 1 for
\* fork_block >= 1 and 0 for fork_block = 0 (the subtraction saturates).
C1_RecoveryInvariantSaturating ==
    Recovered => RecoveryInvariant(FloorPrev(fork_block))

C1_Witness ==
    /\ Recovered /\ cfgPostgres /\ cfgClickhouse /\ mode = "fresh"
    /\ fork_block = 1
    /\ pgEvents # {} /\ chEvents # {}
    /\ PgRead(cfgNetwork) = {0} /\ ChRead(cfgNetwork) = {0}

\* C2: a successful delete step of either backend removes exactly the rows of
\* the target's network at or above fork_block; every other row, those of
\* another network included, stays.
C2_DeleteRemovesExactlyTargetRows ==
    [][/\ (pc = "pg_delete" /\ pc' = "pg_rewind" /\ all_ok')
            => pgEvents' = pgEvents \ Orphaned(pgEvents)
       /\ (pc = "ch_delete" /\ pc' = "ch_rewind" /\ all_ok')
            => chEvents' = chEvents \ Orphaned(chEvents)]_vars

\* what a reader of the storage observes: the rows and the checkpoints
Observed ==
    <<pgEvents, chEvents, [n \in Networks |-> PgRead(n)], [n \in Networks |-> ChRead(n)]>>

\* C3: running recover again with the descriptor of a recovery that completed
\* leaves the rows and the observed checkpoint of every backend as the first
\* run left them: no step of the second run changes them.
C3_RerunChangesNothing ==
    [][mode = "rerun" => Observed' = Observed]_vars

C3_Witness ==
    /\ Recovered /\ mode = "rerun" /\ cfgPostgres /\ cfgClickhouse
    /\ Len(chCheckpoint) = 4
    /\ fork_block = 1

\* C4 as stated: a recovery cancelled at any await and then run again to
\* completion with the same fork block ends in the recovery invariant with the
\* checkpoint at fork_block - 1.
C4_RetryReachesInvariantMinusOne ==
    (Recovered /\ mode = "retry") => RecoveryInvariant(fork_block - 1)

\* C4 as amended: the same, with the checkpoint at fork_block - 1 for
\* fork_block >= 1 and at 0 for fork_block = 0.
C4_RetryReachesInvariant ==
    (Recovered /\ mode = "retry") => RecoveryInvariant(FloorPrev(fork_block))

C4_Witness ==
    /\ Recovered /\ mode = "retry" /\ cfgPostgres /\ cfgClickhouse
    /\ fork_block = 1
    /\ pgEvents # {}

\* C5: no step of a recovery leaves the target's checkpoint greater than it
\* was, in either backend.
C5_CheckpointNeverRaised ==
    [][/\ \A a \in PgRead(cfgNetwork) : \A b \in PgRead(cfgNetwork)' : b <= a
       /\ \A a \in ChRead(cfgNetwork) : \A b \in ChRead(cfgNetwork)' : b <= a]_vars

(***************************************************************************)
(* Fork point search: what the claims speak of.                            *)
(***************************************************************************)
Located == lpc = "returned"
Candidates == {blocks_to_check[i] : i \in 1..Len(blocks_to_check)}
SetMax(S) == CHOOSE x \in S : \A y \in S : y <= x
SetMin(S) == CHOOSE x \in S : \A y \in S : x <= y

\* the candidates the provider returned with the hash the cache holds for them
Matching ==
    {n \in Candidates : \E i \in 1..Len(answer.blocks) :
        answer.blocks[i].number = n /\ answer.blocks[i].hash = block_cache[n]}

\* C6: when the query succeeds and some candidate's returned hash equals its
\* cached hash, the result is the newest such candidate plus one.
C6_NewestMatchPlusOne ==
    (Located /\ answer.status = "ok" /\ Matching # {})
        => located = SetMax(Matching) + 1

C6_Witness ==
    /\ Located /\ answer.status = "ok"
    /\ blocks_to_check = <<3, 2, 1>>
    /\ Len(answer.blocks) = 3
    /\ Matching = {1, 2}
    /\ located = 3

\* C7: when the query succeeds and no candidate's returned hash equals its
\* cached hash, the result is the smallest candidate.
C7_NoMatchReturnsOldest ==
    (Located /\ answer.status = "ok" /\ Matching = {})
        => located = SetMin(Candidates)

C7_Witness ==
    /\ Located /\ answer.status = "ok" /\ Matching = {}
    /\ blocks_to_check = <<3, 1>>
    /\ Len(answer.blocks) = 1
    /\ located = 1

\* C8: when the query fails, the result is reorged_block - 1, or 0 for
\* reorged_block = 0, and it is a block number.
C8_ErrorFallsBackOneBlock ==
    (Located /\ answer.status = "error")
        => (located = FloorPrev(reorged_block) /\ located \in Nat)

C8_Witness ==
    /\ Located /\ answer.status = "error"
    /\ reorged_block = 3
    /\ located = 2

\* the cached block numbers of the scan window that are below reorged_block
CachedBelow ==
    LET max_scan == Cardinality(DOMAIN block_cache) + ScanSlack
    IN  {n \in DOMAIN block_cache :
            /\ n < reorged_block
            /\ n >= SaturatingSub(SaturatingSub(reorged_block, 1), max_scan)}

\* C9: with no cached block number below reorged_block in the scan window the
\* search returns reorged_block and asks the provider nothing; otherwise it
\* sends exactly one batch, the collected candidates.
C9_NoCandidateNoQuery ==
    lpc # "call" =>
        IF CachedBelow = {}
        THEN Located /\ located = reorged_block /\ queries = <<>>
        ELSE queries = <<blocks_to_check>>

(***************************************************************************)
(* Notification classifier: what the claims speak of.                      *)
(***************************************************************************)
NonNegative(x) == IF x > 0 THEN x ELSE 0

\* C10: a Reorged or Reverted notification yields the descriptor whose
\* fork_block is the notification's 'to' block and whose depth is
\* max(0, from - to): 0 when to > from, never a wrapped value.
C10_DepthIsSaturatingDifference ==
    /\ notification.kind = "Reorged" =>
          descriptor = {[fork_block |-> notification.revert_to_block,
                         depth |-> NonNegative(notification.revert_from_block
                                               - notification.revert_to_block)]}
    /\ notification.kind = "Reverted" =>
          descriptor = {[fork_block |-> notification.to_block,
                         depth |-> NonNegative(notification.from_block
                                               - notification.to_block)]}

C10_Witness ==
    /\ notification.kind = "Reverted"
    /\ notification.to_block > notification.from_block
    /\ descriptor = {[fork_block |-> notification.to_block, depth |-> 0]}
    /\ handled = 2

\* C11: a Committed notification returns no descriptor and makes no
\* record_reorg call; a Reorged or Reverted one returns a descriptor and makes
\* exactly one record_reorg call, with the network passed and the descriptor's
\* depth; the calls made equal the descriptors returned.
C11_OneRecordPerDescriptor ==
    [][handled' = handled + 1 =>
        /\ IF notification'.kind = "Committed"
           THEN /\ descriptor' = {}
                /\ recorded' = recorded
                /\ described' = described
           ELSE /\ \E d \in descriptor' :
                      /\ descriptor' = {d}
                      /\ recorded' = Append(recorded, [network |-> notified_network',
                                                       depth |-> d.depth])
                /\ described' = described + 1
        /\ Len(recorded') = described']_vars

C11_Witness ==
    /\ handled = 2
    /\ notification.kind = "Committed"
    /\ descriptor = {}
    /\ described = 1
    /\ Len(recorded) = 1
    /\ recorded[1].network = "n2"

(***************************************************************************)
(* Recovery: the statements issued.                                        *)
(***************************************************************************)
PostgresStatements == {"pg_delete", "pg_rewind"}
ClickhouseStatements == {"ch_delete", "ch_rewind"}
Configured(statement) ==
    IF statement \in PostgresStatements THEN cfgPostgres ELSE cfgClickhouse
Completed == pc = "done"

\* C12: with both backends configured, a recovery that ran to its end has
\* issued the ClickHouse delete and rewind whatever the PostgreSQL statements
\* returned (it has no error exit), and no statement is issued more than once.
C12_FailureSkipsNothingRetriesNothing ==
    /\ \A st \in Statements : issued[st] <= 1
    /\ (cfgPostgres /\ cfgClickhouse /\ Completed)
          => \A st \in Statements : issued[st] = 1

C12_Witness ==
    /\ Completed /\ cfgPostgres /\ cfgClickhouse
    /\ failed = PostgresStatements
    /\ \A st \in Statements : issued[st] = 1
    /\ chEvents # before[2]
    /\ chCheckpoint # before[4]

\* C13: no statement is issued to a backend that is not configured and its
\* storage stays as it was at entry; a recovery that ran to its end has issued
\* each statement of a configured backend once, so with no backend configured
\* it ends having issued nothing.
C13_OnlyConfiguredBackends ==
    /\ \A st \in Statements : ~Configured(st) => issued[st] = 0
    /\ Completed => \A st \in Statements : Configured(st) => issued[st] = 1
    /\ (~cfgPostgres /\ pc # "idle")
          => (pgEvents = before[1] /\ pgCheckpoint = before[3])
    /\ (~cfgClickhouse /\ pc # "idle")
          => (chEvents = before[2] /\ chCheckpoint = before[4])

C13_Witness ==
    /\ Completed /\ cfgPostgres /\ ~cfgClickhouse
    /\ failed = {}
    /\ issued = [st \in Statements |-> IF st \in PostgresStatements THEN 1 ELSE 0]
    /\ pgEvents # before[1]
    /\ chEvents = before[2]

(***************************************************************************)
(* Native transfer recovery.                                               *)
(***************************************************************************)
NativeOrphan(r) == r.network = nt_network /\ r.block_number >= nt_fork_block
NtRead(n) == ReadCheckpointPostgres(ntCheckpoint, n)
NativeRecovered == npc = "done" /\ nt_ok /\ nt_postgres

\* the native_transfer table holds no row of the network at or above the fork
\* block and its checkpoint for the network reads cp
NativeInvariant(cp) ==
    /\ {r \in ntEvents : NativeOrphan(r)} = {}
    /\ NtRead(nt_network) = {cp}

\* a step of the native transfer recovery leaves alone the contract's tables,
\* the native_transfer rows that are not of the call's network at or above its
\* fork block, and the checkpoints of the other networks; with postgres None it
\* leaves everything alone; the checkpoint changes only after the delete
NativeFrame ==
    /\ UNCHANGED storage
    /\ {r \in ntEvents' : ~NativeOrphan(r)'} = {r \in ntEvents : ~NativeOrphan(r)'}
    /\ \A n \in Networks \ {nt_network'} : NtRead(n)' = NtRead(n)
    /\ ~nt_postgres => UNCHANGED <<ntEvents, ntCheckpoint>>
    /\ ntCheckpoint' # ntCheckpoint => npc = "nt_rewind"

C15_SafeDistance ==
    [][dpc' = "returned" =>
        /\ safe_distance' = IF chain_id = 1 THEN 12 ELSE 64
        /\ chain_id # 1 => safe_distance' > 12
        /\ UNCHANGED <<chain_id, recoveryVars, locateVars, classifyVars, nativeVars>>]_vars

C15_Witness ==
    /\ dpc = "returned"
    /\ chain_id = 42
    /\ safe_distance = 64

(***************************************************************************)
(* Recovery: delete before rewind, and statements that fail.               *)
(***************************************************************************)
\* the statement was issued in the running recovery and returned Ok
Succeeded(statement) == issued[statement] = 1 /\ statement \notin failed

\* C16: in each backend the rewind is issued only after the delete, and there
\* is no state in which the recovery has rewound the backend's checkpoint
\* while rows of the network at or above fork_block are still stored in it.
C16_NoRewindOverOrphanedRows ==
    /\ issued["pg_rewind"] <= issued["pg_delete"]
    /\ issued["ch_rewind"] <= issued["ch_delete"]
    /\ Succeeded("pg_rewind") => Orphaned(pgEvents) = {}
    /\ Succeeded("ch_rewind") => Orphaned(chEvents) = {}

\* C17: a backend in which a statement of the recovery returned Err holds the
\* rows it held when the recovery started, and its checkpoint reads what it
\* read then.
C17_FailedBackendUntouched ==
    /\ failed \cap PostgresStatements # {}
          => /\ pgEvents = before[1]
             /\ \A n \in Networks : PgRead(n) = ReadCheckpointPostgres(before[3], n)
    /\ failed \cap ClickhouseStatements # {}
          => /\ chEvents = before[2]
             /\ \A n \in Networks : ChRead(n) = ReadCheckpointClickhouse(before[4], n)

Collected == lpc # "call"

\* every candidate is a cached block number strictly below reorged_block
CandidatesBelow ==
    \A i \in 1..Len(blocks_to_check) :
        /\ Cached(block_cache, blocks_to_check[i])
        /\ blocks_to_check[i] < reorged_block

\* the candidates are in strictly decreasing order
CandidatesDecreasing ==
    \A i, j \in 1..Len(blocks_to_check) :
        i < j => blocks_to_check[i] > blocks_to_check[j]

\* the scan peeked at no more than (cache size + 64) block numbers
ScanWithinWindow == inspected <= Cardinality(DOMAIN block_cache) + 64

\* C19: the candidates are cached block numbers strictly below reorged_block,
\* in strictly decreasing order, at most 64 of them, and the scan peeks at no
\* more than (cache size + 64) block numbers.
C19_CandidatesBelowAndBounded ==
    Collected =>
        /\ CandidatesBelow
        /\ CandidatesDecreasing
        /\ Len(blocks_to_check) <= 64
        /\ ScanWithinWindow

\* C20: the value returned is never above reorged_block, and it is strictly
\* below it when reorged_block > 0 and either the query failed or the query
\* succeeded with no returned block matching the cache.
C20_NeverForward ==
    Located =>
        /\ located <= reorged_block
        /\ (reorged_block > 0 /\ answer.status = "error") => located < reorged_block
        /\ (reorged_block > 0 /\ answer.status = "ok" /\ Matching = {})
              => located < reorged_block

====
